---------------------------- MODULE Spec2Model ----------------------------
(***************************************************************************)
(* A model of tinytracer (src/src/main.cpp): the ray/sphere intersection,  *)
(* the closest-hit query, the scatter rule, the rejection sampler, the     *)
(* recursive integrator World::color and the render pass of main.          *)
(*                                                                         *)
(* Numbers.  The program computes in 32-bit floats.  The model computes in *)
(* fixed point: a length, coordinate or ray parameter is an integer number *)
(* of 1/Scale, a radiance channel an integer number of 1/CScale.  Every    *)
(* product, quotient and square root is rounded to the nearest unit, as a  *)
(* float operation is rounded to the nearest float; the casts of the pixel *)
(* packing truncate, as static_cast<uint32_t> does.  NaN and infinite      *)
(* intermediate values are outside the model: every ray has a direction    *)
(* with dot(direction, direction) > 0 and every sphere a radius > 0.       *)
(***************************************************************************)
EXTENDS Integers, Sequences, FiniteSets

VARIABLES
  spheres,        \* world.spheres, fixed once the scene is built
  w, h,           \* image size
  aspectRatio,
  x, y, i,        \* the loop counters of the render pass
  pixelColor,     \* the accumulator of the current pixel
  pixels,         \* std::vector<uint32_t> pixels(w * h)
  texturePixels,  \* the texture's copy of the buffer ("none" before the upload)
  isRunning,
  pc,             \* where main is
  writes,         \* history: the indices written to pixels, in order
  ray, depth,     \* the arguments of the call of World::color being run (the
                  \* ray is dead, and NoRay, once that call has its value)
  frames,         \* the suspended calls of World::color, innermost last
  ret,            \* the value the last finished call returned
  cpc,            \* where World::color is: "idle", "call", "ret", "done"
  trace,          \* history of the primary call: what each call of color did
  dir, l,         \* the candidate of randomUnitVec3OnSphere and its squared length
  spc,            \* where randomUnitVec3OnSphere is
  arg, res        \* a single call of a pure function: its arguments, its result

mainVars    == <<w, h, aspectRatio, x, y, i, pixelColor, pixels, texturePixels,
                 isRunning, pc, writes>>
colorVars   == <<ray, depth, frames, ret, cpc, trace>>
samplerVars == <<dir, l, spc>>
unitVars    == <<arg, res>>
vars        == <<spheres, mainVars, colorVars, samplerVars, unitVars>>

-----------------------------------------------------------------------------
(* Fixed-point arithmetic standing for float arithmetic.                   *)

\* One unit of length is 1/Scale.
Scale == 1000
\* One unit of radiance is 1/CScale: 8-bit packing needs four decimal digits.
CScale == 10000

Abs(a) == IF a < 0 THEN -a ELSE a

\* a / b rounded to the nearest integer, b > 0.
RDiv(a, b) == (a + b \div 2) \div b

\* a / b rounded to the nearest integer, b # 0.
Quot(a, b) == IF b > 0 THEN RDiv(a, b) ELSE RDiv(-a, -b)

\* A power of two above the square root of n, 0 < n < 2^30.
SqrtGuess(n) == 2 ^ (CHOOSE k \in 1..15 : 4 ^ k > n /\ (k = 1 \/ 4 ^ (k - 1) <= n))

\* One step of Newton's iteration for the square root of n.
SqrtStep(n, q) == (q + n \div q) \div 2

\* The largest r with r * r <= n, 0 <= n < 2^30: four Newton steps from
\* above and a last correction by one.
SqrtFloor(n) ==
  IF n = 0 THEN 0
  ELSE LET q == SqrtStep(n, SqrtStep(n, SqrtStep(n, SqrtStep(n, SqrtGuess(n)))))
       IN  IF q * q > n THEN q - 1
           ELSE IF (q + 1) * (q + 1) <= n THEN q + 1 ELSE q

\* The integer nearest to the square root of n.
ISqrt(n) ==
  LET r == SqrtFloor(n)
  IN  IF n - r * r > r THEN r + 1 ELSE r

FMul(a, b) == RDiv(a * b, Scale)
FDiv(a, b) == Quot(a * Scale, b)
FSqrt(a)   == ISqrt(a * Scale)

CMul(a, b) == RDiv(a * b, CScale)
CSqrt(a)   == ISqrt(a * CScale)

\* glm::vec3 as a triple.
VAdd(u, v)   == <<u[1] + v[1], u[2] + v[2], u[3] + v[3]>>
VSub(u, v)   == <<u[1] - v[1], u[2] - v[2], u[3] - v[3]>>
VScale(s, v) == <<FMul(s, v[1]), FMul(s, v[2]), FMul(s, v[3])>>
VDivS(v, s)  == <<FDiv(v[1], s), FDiv(v[2], s), FDiv(v[3], s)>>

\* glm::dot.  The square of a non-zero float vector is positive (no float of
\* the program is small enough to underflow); in fixed point it could round
\* to 0, and the smallest positive number, one unit, stands for it.
dot(u, v) ==
  LET s == FMul(u[1], v[1]) + FMul(u[2], v[2]) + FMul(u[3], v[3])
  IN  IF u = v /\ u # <<0, 0, 0>> /\ s < 1 THEN 1 ELSE s

\* glm::normalize(v) = v * inversesqrt(dot(v, v)).
normalize(v) == VDivS(v, FSqrt(dot(v, v)))

\* glm::reflect(I, N) = I - N * dot(N, I) * 2.
reflect(I, N) == VSub(I, VScale(2 * dot(N, I), N))

\* std::numeric_limits<float>::infinity() and ::max(): above every ray parameter.
Infinity == 2000000000
FloatMax == 1999999999
\* The "no intersection" value -1.0f.
NoHit == -Scale

-----------------------------------------------------------------------------
(* The random source.                                                      *)

\* std::numeric_limits<float>::epsilon(), 1.19e-7, is below one unit: a
\* fixed-point number is below it in absolute value exactly when it is 0.
Epsilon == 1
\* std::numeric_limits<float>::min(), 1.18e-38, is below one unit: a
\* fixed-point number is above it exactly when it is positive.
FloatMin == 0

nearZero(vec) ==
  Abs(vec[1]) < Epsilon /\ Abs(vec[2]) < Epsilon /\ Abs(vec[3]) < Epsilon

\* The values of randomFloat() the model draws, out of [0, 1): the multiples
\* of 1/(2 GridN).
GridN == 2
RandomFloats == {(k * Scale) \div (2 * GridN) : k \in 0..(2 * GridN - 1)}

\* randomFloat(min, max), u being what randomFloat() returns.
randomFloat(min, max, u) == min + FMul(max - min, u)

\* The values of randomFloat(-1.0f, 1.0f).
Grid == {randomFloat(-Scale, Scale, u) : u \in RandomFloats}

\* The values of randomVec3(-1.0f, 1.0f).
Candidates == Grid \X Grid \X Grid

\* The test of line 309 without its upper bound.
acceptedAnyLength(lsq) == FloatMin < lsq

\* Line 309: the candidate of squared length lsq is taken.
accepted(lsq) == FloatMin < lsq /\ lsq <= Scale

\* What randomUnitVec3OnSphere can return.
SamplerReturns ==
  {VDivS(c, FSqrt(dot(c, c))) : c \in {c \in Candidates : accepted(dot(c, c))}}

-----------------------------------------------------------------------------
(* struct Ray.                                                             *)

Ray(origin, direction) == [origin |-> origin, direction |-> direction]

at(r, t) == VAdd(r.origin, VScale(t, r.direction))

\* Ray::intersects with the bounds included: < and > in place of <= and >=
\* at lines 101 and 103.
intersectsInclusive(r, sphere, minT, maxT) ==
  LET oc == VSub(sphere.center, r.origin)
      a  == dot(r.direction, r.direction)
      hh == dot(r.direction, oc)
      c  == dot(oc, oc) - FMul(sphere.radius, sphere.radius)
      d  == FMul(hh, hh) - FMul(a, c)
  IN  IF d < 0 THEN NoHit
      ELSE LET sd == FSqrt(d)
               t1 == FDiv(hh - sd, a)
               t2 == FDiv(hh + sd, a)
           IN  IF t1 < minT \/ t1 > maxT
               THEN IF t2 < minT \/ t2 > maxT THEN NoHit ELSE t2
               ELSE t1

intersects(r, sphere, minT, maxT) ==
  LET oc == VSub(sphere.center, r.origin)
      a  == dot(r.direction, r.direction)
      hh == dot(r.direction, oc)
      c  == dot(oc, oc) - FMul(sphere.radius, sphere.radius)
      d  == FMul(hh, hh) - FMul(a, c)
  IN  IF d < 0 THEN NoHit
      ELSE LET sd == FSqrt(d)
               t1 == FDiv(hh - sd, a)
               t2 == FDiv(hh + sd, a)
           IN  IF t1 <= minT \/ t1 >= maxT
               THEN IF t2 <= minT \/ t2 >= maxT THEN NoHit ELSE t2
               ELSE t1

\* Ray::scatter returning Ray{p, dir} in the degenerate case, where line 83
\* returns Ray{p, n + dir}.
scatterAlongNormal(r, p, n, mat, rnd) ==
  IF mat.metallic # 0
  THEN Ray(p, reflect(VSub(p, r.origin), n))
  ELSE IF nearZero(VAdd(n, rnd)) THEN Ray(p, n) ELSE Ray(p, VAdd(n, rnd))

scatter(r, p, n, mat, rnd) ==
  IF mat.metallic # 0
  THEN Ray(p, reflect(VSub(p, r.origin), n))
  ELSE LET d0 == rnd
           d1 == IF nearZero(VAdd(n, d0)) THEN n ELSE d0
       IN  Ray(p, VAdd(n, d1))

-----------------------------------------------------------------------------
(* struct World.                                                           *)

\* The lower bound 0.001 of a hit.
MinT == Scale \div 1000

RECURSIVE hitLoopNoSign(_, _, _, _)
\* The loop of World::hit without the test t < 0 of line 145: the "no
\* intersection" value -1 is taken for a ray parameter.
hitLoopNoSign(r, k, closestT, closestSphere) ==
  IF k > Len(spheres) THEN [sphere |-> closestSphere, t |-> closestT]
  ELSE LET t == intersects(r, spheres[k], MinT, Infinity)
       IN  IF t > closestT
           THEN hitLoopNoSign(r, k + 1, closestT, closestSphere)
           ELSE hitLoopNoSign(r, k + 1, t, k)

RECURSIVE hitLoopFirst(_, _, _, _)
\* The loop of World::hit with t >= closestT in place of t > closestT at line
\* 145: a sphere replaces the closest only when strictly closer.
hitLoopFirst(r, k, closestT, closestSphere) ==
  IF k > Len(spheres) THEN [sphere |-> closestSphere, t |-> closestT]
  ELSE LET t == intersects(r, spheres[k], MinT, Infinity)
       IN  IF t < 0 \/ t >= closestT
           THEN hitLoopFirst(r, k + 1, closestT, closestSphere)
           ELSE hitLoopFirst(r, k + 1, t, k)

RECURSIVE hitLoop(_, _, _, _)
\* The loop of World::hit from the k-th sphere on; closestSphere is an index
\* into spheres, 0 standing for nullptr.
hitLoop(r, k, closestT, closestSphere) ==
  IF k > Len(spheres) THEN [sphere |-> closestSphere, t |-> closestT]
  ELSE LET t == intersects(r, spheres[k], MinT, Infinity)
       IN  IF t < 0 \/ t > closestT
           THEN hitLoop(r, k + 1, closestT, closestSphere)
           ELSE hitLoop(r, k + 1, t, k)

hit(r) == hitLoop(r, 1, FloatMax, 0)

Sky   == <<5000, 8000, 9000>>
Black == <<0, 0, 0>>

\* Line 134 with 0.5f in place of 0.25f.
attenuateHalf(albedo, c) ==
  LET k == [j \in 1..3 |-> CMul(CScale \div 2, albedo[j])]
  IN  <<CMul(k[1], c[1]), CMul(k[2], c[2]), CMul(k[3], c[3])>>

\* 0.25f * mat.albedo * c, component-wise, evaluated left to right.
attenuate(albedo, c) ==
  LET k == [j \in 1..3 |-> CMul(CScale \div 4, albedo[j])]
  IN  <<CMul(k[1], c[1]), CMul(k[2], c[2]), CMul(k[3], c[3])>>


rayDepth == 50

Material(albedo, metallic) ==
  [albedo |-> albedo, roughness |-> Scale, metallic |-> metallic]
Sphere(center, radius, material) ==
  [center |-> center, radius |-> radius, material |-> material]

NoRay == Ray(<<0, 0, 0>>, <<0, 0, 0>>)

\* The history of one primary call of World::color: its arguments, the number
\* of calls of color, of closest-hit queries and of scatter rays so far, and
\* the spheres hit, outermost first.
NewTrace(r, d) ==
  [ray |-> r, depth |-> d, calls |-> 1, hits |-> 0, scatters |-> 0, path |-> <<>>]

\* The test of line 117 weakened to depth < 0: a call of depth 0 goes on.
exhaustedBelowZero(d) == d < 0

\* Line 117: the depth is used up.
exhausted(d) == d <= 0

(* World::color as a machine.  Its state cs is a record of the fields ray,   *)
(* depth, frames, ret, cpc and trace, which are the variables of the same   *)
(* names; each step below is one piece of the function's body.              *)

\* The primary call color(r, d) is entered.
enter(r, d) ==
  [ray |-> r, depth |-> d, frames |-> <<>>, ret |-> Black, cpc |-> "call",
   trace |-> NewTrace(r, d)]

\* Lines 117-119: the depth is used up, the call returns black.
blackStep(cs) ==
  [cs EXCEPT !.ret = Black, !.cpc = "ret", !.ray = NoRay]

\* Lines 121-126: the ray hits nothing, the call returns the sky colour.
skyStep(cs) ==
  [cs EXCEPT !.ret = Sky, !.cpc = "ret", !.ray = NoRay,
             !.trace.hits = @ + 1]

\* Line 134 with color(scattered, depth) in place of color(scattered,
\* depth - 1).
bounceStepSameDepth(cs, rnd) ==
  LET record == hit(cs.ray)
      sphere == spheres[record.sphere]
      p == at(cs.ray, record.t)
      n == VDivS(VSub(p, sphere.center), sphere.radius)
  IN  [cs EXCEPT !.ray = scatter(cs.ray, p, n, sphere.material, rnd),
                 !.frames = Append(@, record.sphere),
                 !.trace.hits = @ + 1,
                 !.trace.scatters = @ + 1,
                 !.trace.calls = @ + 1,
                 !.trace.path = Append(@, record.sphere)]

\* Lines 121-134 up to the recursive call: the ray hits a sphere, the
\* scattered ray is built and color is called on it with depth - 1.  rnd is
\* what randomUnitVec3OnSphere returns, should scatter call it.
bounceStep(cs, rnd) ==
  LET record == hit(cs.ray)
      sphere == spheres[record.sphere]
      p == at(cs.ray, record.t)
      n == VDivS(VSub(p, sphere.center), sphere.radius)
  IN  [cs EXCEPT !.ray = scatter(cs.ray, p, n, sphere.material, rnd),
                 !.depth = cs.depth - 1,
                 !.frames = Append(@, record.sphere),
                 !.trace.hits = @ + 1,
                 !.trace.scatters = @ + 1,
                 !.trace.calls = @ + 1,
                 !.trace.path = Append(@, record.sphere)]

\* Line 134: the recursive call has returned; the suspended call multiplies
\* what it returned and returns in turn.
returnStep(cs) ==
  [cs EXCEPT !.ret = attenuate(spheres[cs.frames[Len(cs.frames)]].material.albedo,
                               cs.ret),
             !.frames = SubSeq(@, 1, Len(@) - 1),
             !.depth = @ + 1]

\* The primary call returns to its caller.
doneStep(cs) == [cs EXCEPT !.cpc = "done"]

\* The steps the machine can take from cs.
colorSteps(cs) ==
  IF cs.cpc = "call"
  THEN IF exhausted(cs.depth) THEN {blackStep(cs)}
       ELSE IF hit(cs.ray).sphere = 0 THEN {skyStep(cs)}
       ELSE {bounceStep(cs, rnd) : rnd \in SamplerReturns}
  ELSE IF cs.cpc = "ret"
  THEN IF cs.frames # <<>> THEN {returnStep(cs)} ELSE {doneStep(cs)}
  ELSE {}

RECURSIVE colorResults(_)
\* The values the call in state cs can return.
colorResults(cs) ==
  IF cs.cpc = "done" THEN {cs.ret}
  ELSE UNION {colorResults(n) : n \in colorSteps(cs)}

\* The values color(r, d) can return.
color(r, d) == colorResults(enter(r, d))

-----------------------------------------------------------------------------
(* The parts of the state a specification does not use stay as they are.   *)

MainIdle ==
  /\ w = 0 /\ h = 0 /\ aspectRatio = 0
  /\ x = 0 /\ y = 0 /\ i = 0
  /\ pixelColor = Black
  /\ pixels = <<>>
  /\ texturePixels = "none"
  /\ isRunning = FALSE
  /\ pc = "off"
  /\ writes = <<>>

ColorIdle ==
  /\ ray = NoRay /\ depth = 0
  /\ frames = <<>>
  /\ ret = Black
  /\ cpc = "idle"
  /\ trace = NewTrace(NoRay, 0)

SamplerIdle == dir = <<0, 0, 0>> /\ l = 0 /\ spc = "idle"

UnitIdle == arg = <<>> /\ res = <<>>

-----------------------------------------------------------------------------
(* Scenes.                                                                 *)

Diffuse(albedo) == Material(albedo, 0)
Metal(albedo)   == Material(albedo, 1)

Grey  == <<5000, 5000, 5000>>
White == <<10000, 10000, 10000>>

\* No sphere at all.
EmptyScene == <<>>

\* The first two spheres of the program's world, lines 166-175.
WorldScene ==
  << Sphere(<<0, 0, -1000>>, 200, Diffuse(Grey)),
     Sphere(<<450, 0, -1000>>, 200, Metal(White)) >>

\* A mirror and a diffuse sphere facing each other along the x axis, the
\* origin between them.
FacingScene ==
  << Sphere(<<2000, 0, 0>>, 1000, Metal(White)),
     Sphere(<<-2000, 0, 0>>, 1000, Diffuse(Grey)) >>

\* A mirror ball around the origin: every ray from inside hits it.
MirrorBallScene == << Sphere(<<0, 0, 0>>, 2000, Metal(White)) >>

-----------------------------------------------------------------------------
(* World::color on its own: one primary call, any scene, ray and depth.    *)

CS ==
  [ray |-> ray, depth |-> depth, frames |-> frames, ret |-> ret, cpc |-> cpc,
   trace |-> trace]

SetCS(n) ==
  /\ ray' = n.ray /\ depth' = n.depth /\ frames' = n.frames
  /\ ret' = n.ret /\ cpc' = n.cpc /\ trace' = n.trace

ColorBlack ==
  /\ cpc = "call" /\ exhausted(depth)
  /\ SetCS(blackStep(CS))
  /\ UNCHANGED <<spheres, mainVars, samplerVars, unitVars>>

ColorSky ==
  /\ cpc = "call" /\ ~exhausted(depth) /\ hit(ray).sphere = 0
  /\ SetCS(skyStep(CS))
  /\ UNCHANGED <<spheres, mainVars, samplerVars, unitVars>>

ColorBounce ==
  /\ cpc = "call" /\ ~exhausted(depth) /\ hit(ray).sphere # 0
  /\ \E rnd \in SamplerReturns : SetCS(bounceStep(CS, rnd))
  /\ UNCHANGED <<spheres, mainVars, samplerVars, unitVars>>

ColorReturn ==
  /\ cpc = "ret" /\ frames # <<>>
  /\ SetCS(returnStep(CS))
  /\ UNCHANGED <<spheres, mainVars, samplerVars, unitVars>>

ColorDone ==
  /\ cpc = "ret" /\ frames = <<>>
  /\ SetCS(doneStep(CS))
  /\ UNCHANGED <<spheres, mainVars, samplerVars, unitVars>>

ColorScenes == {EmptyScene, WorldScene, FacingScene, MirrorBallScene}

ColorRays ==
  { Ray(<<0, 0, 0>>, d) :
      d \in {<<0, 0, -1000>>, <<1000, 0, 0>>, <<0, 1000, 0>>, <<-1000, 0, 0>>,
             normalize(<<450, 0, -1000>>)} }

\* The scenes without a diffuse sphere: a ray has one path through them.
MirrorScenes == {EmptyScene, MirrorBallScene, <<WorldScene[2]>>}

\* The depths a primary call is given here: the small ones in every scene,
\* the program's rayDepth in the scenes where a ray has one path.
MaxSmallDepth == 3
ColorInputs ==
  (ColorScenes \X (-1..MaxSmallDepth)) \cup (MirrorScenes \X {rayDepth})

InitColor ==
  /\ \E input \in ColorInputs, r \in ColorRays :
       /\ spheres = input[1]
       /\ ray = r /\ depth = input[2]
       /\ frames = <<>> /\ ret = Black /\ cpc = "call"
       /\ trace = NewTrace(r, input[2])
  /\ MainIdle /\ SamplerIdle /\ UnitIdle

NextColor == ColorBlack \/ ColorSky \/ ColorBounce \/ ColorReturn \/ ColorDone

SpecColor == InitColor /\ [][NextColor]_vars



-----------------------------------------------------------------------------
(* Claims about World::color.                                              *)

\* C3: a call of color with depth <= 0, primary or recursive, returns exactly
\* black in its one step: no closest-hit query, no scatter ray and no further
\* call of color are made, and no call is left suspended by it.
C3_DepthUsedUpReturnsBlack ==
  [][ (cpc = "call" /\ depth <= 0) =>
        /\ cpc' = "ret" /\ ret' = Black
        /\ trace'.hits = trace.hits
        /\ trace'.scatters = trace.scatters
        /\ trace'.calls = trace.calls
        /\ frames' = frames ]_vars

\* A primary call with depth <= 0, in a scene with spheres, has returned.
C3_Witness ==
  /\ cpc = "done" /\ trace.depth <= 0 /\ Len(spheres) > 0
  /\ ret = Black /\ trace.hits = 0

\* No sphere of the scene is intersected by r within (0.001, +infinity).
MissesAll(r) ==
  \A k \in 1..Len(spheres) : intersects(r, spheres[k], MinT, Infinity) = NoHit

\* C4: a call of color with depth > 0 on a ray that intersects no sphere
\* within (0.001, +infinity) returns exactly the sky colour (0.5, 0.8, 0.9) in
\* its one step, with no scatter ray and no further call of color.
C4_MissReturnsSky ==
  [][ (cpc = "call" /\ depth > 0 /\ MissesAll(ray)) =>
        /\ cpc' = "ret" /\ ret' = <<5000, 8000, 9000>>
        /\ trace'.scatters = trace.scatters
        /\ trace'.calls = trace.calls
        /\ frames' = frames ]_vars

\* A primary call with depth > 0 whose ray misses every sphere of a scene
\* that has spheres has returned the sky colour.
C4_Witness ==
  /\ cpc = "done" /\ trace.depth > 0 /\ Len(spheres) > 0
  /\ MissesAll(trace.ray)
  /\ ret = <<5000, 8000, 9000>> /\ trace.calls = 1 /\ trace.scatters = 0

\* What is left of a primary call of color, counted in steps: a running
\* call of depth d can be followed by d more calls, each of which returns,
\* and every suspended call has its return to make.
C9_Measure ==
  IF cpc = "call" THEN 2 * (IF depth > 0 THEN depth ELSE 0) + Len(frames) + 2
  ELSE IF cpc = "ret" THEN Len(frames) + 1
  ELSE 0

\* A call of color that has not returned to main can take a step.
C9_CanStep ==
  \/ cpc = "call" /\ exhausted(depth)
  \/ cpc = "call" /\ ~exhausted(depth) /\ hit(ray).sphere = 0
  \/ cpc = "call" /\ ~exhausted(depth) /\ hit(ray).sphere # 0
       /\ SamplerReturns # {}
  \/ cpc = "ret"

\* C9: every recursive call of color is given depth - 1; a primary call of
\* depth d makes at most d closest-hit queries (at most 50 for d = rayDepth);
\* a primary call whose bounces all hit, down to depth 0, returns black; and
\* every primary call returns: each step strictly decreases a natural number
\* that is 0 only once the call has returned, and a call that has not
\* returned can always take a step.
C9_DepthBoundsTheRecursion ==
  /\ [][trace'.calls > trace.calls => depth' = depth - 1]_vars
  /\ [](trace.hits <= (IF trace.depth > 0 THEN trace.depth ELSE 0))
  /\ [](trace.depth = 50 => trace.hits <= 50)
  /\ []((cpc = "done" /\ trace.depth > 0 /\ Len(trace.path) = trace.depth)
          => ret = Black)
  /\ [][C9_Measure' < C9_Measure]_vars
  /\ [](C9_Measure >= 0 /\ (C9_Measure = 0 <=> cpc = "done"))
  /\ [](cpc # "done" => C9_CanStep)

\* A primary call of depth rayDepth whose 50 bounces all hit has returned.
C9_Witness ==
  /\ cpc = "done" /\ trace.depth = 50
  /\ Len(trace.path) = 50 /\ trace.hits = 50
  /\ ret = Black

RECURSIVE C10_Fold(_, _)
\* 0.25 x albedo x (the colour of the rest of the path), from the last sphere
\* of the path back to the first, each product rounded as the program's is.
C10_Fold(path, base) ==
  IF path = <<>> THEN base
  ELSE LET rest == C10_Fold(Tail(path), base)
           a == spheres[Head(path)].material.albedo
       IN  [c \in 1..3 |-> RDiv(RDiv(2500 * a[c], CScale) * rest[c], CScale)]

\* C10: a primary call whose path hits k spheres and then misses returns
\* 0.25^k x A1 x ... x Ak x (0.5, 0.8, 0.9), the factor 0.25 being the same
\* for metallic and diffuse spheres; for k = 1 this is the exact product
\* 0.25 x A1 x sky to within one unit of rounding.
C10_QuarterAlbedoPerBounce ==
  (cpc = "done" /\ Len(trace.path) < trace.depth) =>
     /\ ret = C10_Fold(trace.path, <<5000, 8000, 9000>>)
     /\ Len(trace.path) = 1 =>
          LET a == spheres[trace.path[1]].material.albedo
              sky == <<5000, 8000, 9000>>
          IN  \A c \in 1..3 :
                Abs(4 * CScale * ret[c] - a[c] * sky[c]) <= 4 * CScale

\* A path that hits a mirror and a diffuse sphere and then misses.
C10_Witness ==
  /\ cpc = "done" /\ Len(trace.path) = 2 /\ trace.depth > 2
  /\ spheres[trace.path[1]].material.metallic # 0
  /\ spheres[trace.path[2]].material.metallic = 0
  /\ ret # Black

-----------------------------------------------------------------------------
(* Ray::intersects on its own: one call, arg = <<ray, sphere, minT, maxT>>. *)

\* The largest coordinate, in whole lengths, of the rays, spheres and bounds
\* tried.
MaxCoord == 2

IntersectRays ==
  { Ray(<<0, 0, o * Scale>>, <<0, j * Scale, -(k * Scale)>>) :
      o \in 0..MaxCoord, j \in 0..1, k \in 1..MaxCoord }
  \cup { Ray(<<0, 0, 0>>, <<0, 0, Scale>>) }

IntersectSpheres ==
  { Sphere(<<0, 0, -(k * Scale)>>, rr * Scale, Diffuse(Grey)) :
      k \in 0..(MaxCoord + 1), rr \in 1..MaxCoord }

IntersectMinT == {MinT} \cup {k * Scale : k \in 0..MaxCoord}
IntersectMaxT == {Infinity} \cup {k * Scale : k \in 1..(MaxCoord + 1)}

InitIntersect ==
  /\ arg \in IntersectRays \X IntersectSpheres \X IntersectMinT \X IntersectMaxT
  /\ res = <<>>
  /\ spheres = EmptyScene
  /\ MainIdle /\ ColorIdle /\ SamplerIdle

Intersect ==
  /\ res = <<>>
  /\ res' = <<intersects(arg[1], arg[2], arg[3], arg[4])>>
  /\ UNCHANGED <<arg, spheres, mainVars, colorVars, samplerVars>>

NextIntersect == Intersect

SpecIntersect == InitIntersect /\ [][NextIntersect]_vars

\* The quantities of the claim, from the arguments of the call.
C5_a == dot(arg[1].direction, arg[1].direction)
C5_h == dot(arg[1].direction, VSub(arg[2].center, arg[1].origin))
C5_c ==
  LET oc == VSub(arg[2].center, arg[1].origin)
  IN  dot(oc, oc) - FMul(arg[2].radius, arg[2].radius)
C5_d == FMul(C5_h, C5_h) - FMul(C5_a, C5_c)
C5_Near == FDiv(C5_h - FSqrt(C5_d), C5_a)
C5_Far  == FDiv(C5_h + FSqrt(C5_d), C5_a)
C5_Inside(t) == arg[3] < t /\ t < arg[4]

\* C5: intersects returns the sentinel -1 when d = h*h - a*c is negative;
\* otherwise the near root if it lies strictly between minT and maxT, else
\* the far root if it lies strictly between minT and maxT, else the sentinel.
\* So a result other than the sentinel lies strictly between minT and maxT,
\* and a root equal to minT or to maxT is not returned.
C5_RootsStrictlyInsideBounds ==
  res # <<>> =>
    /\ C5_d < 0 => res[1] = -Scale
    /\ C5_d >= 0 =>
         /\ res[1] = (IF C5_Inside(C5_Near) THEN C5_Near
                      ELSE IF C5_Inside(C5_Far) THEN C5_Far
                      ELSE -Scale)
         /\ (C5_Near = arg[3] \/ C5_Near = arg[4]) => res[1] # C5_Near
         /\ (C5_Far = arg[3] \/ C5_Far = arg[4]) => res[1] # C5_Far
    /\ res[1] # -Scale => (arg[3] < res[1] /\ res[1] < arg[4])

\* The near root is exactly minT: it is passed over and the far root returned.
C5_Witness ==
  /\ res # <<>> /\ C5_d > 0
  /\ C5_Near = arg[3] /\ C5_Inside(C5_Far)
  /\ res[1] = C5_Far

-----------------------------------------------------------------------------
(* World::hit on its own: one call on any scene of up to MaxSpheres spheres *)
(* out of a few that a ray meets at equal or different distances.          *)

MaxSpheres == 3

\* Along -z from the origin the first two are met at t = 2, the third at
\* t = 4; the fourth lies on the +y axis.
HitSpheres ==
  { Sphere(<<0, 0, -3000>>, 1000, Diffuse(Grey)),
    Sphere(<<0, 0, -4000>>, 2000, Metal(White)),
    Sphere(<<0, 0, -5000>>, 1000, Diffuse(White)),
    Sphere(<<0, 5000, 0>>, 1000, Metal(Grey)) }

HitRays ==
  { Ray(<<0, 0, 0>>, d) : d \in {<<0, 0, -1000>>, <<0, 1000, 0>>, <<1000, 0, 0>>} }

HitScenes == UNION { [1..n -> HitSpheres] : n \in 0..MaxSpheres }

InitHit ==
  /\ spheres \in HitScenes
  /\ arg \in {<<r>> : r \in HitRays}
  /\ res = <<>>
  /\ MainIdle /\ ColorIdle /\ SamplerIdle

Hit ==
  /\ res = <<>>
  /\ res' = <<hit(arg[1])>>
  /\ UNCHANGED <<arg, spheres, mainVars, colorVars, samplerVars>>

NextHit == Hit

SpecHit == InitHit /\ [][NextHit]_vars

\* The distance at which the ray of the call meets the k-th sphere, -1 if it
\* does not within (0.001, +infinity).
C7_T(k) == intersects(arg[1], spheres[k], Scale \div 1000, Infinity)

\* The spheres the ray meets, and those it meets at the least distance.
C7_Met == {k \in 1..Len(spheres) : C7_T(k) >= 0}
C7_Closest == {k \in C7_Met : \A j \in C7_Met : C7_T(k) <= C7_T(j)}

\* C7, as stated: of several spheres met at the same least distance hit
\* returns the first in iteration order; with no sphere met it returns the
\* null sphere; otherwise the t returned is the least distance.
C7_FirstClosestWins ==
  res # <<>> =>
    IF C7_Met = {} THEN res[1].sphere = 0
    ELSE /\ res[1].sphere \in C7_Closest
         /\ \A k \in C7_Closest : res[1].sphere <= k
         /\ res[1].t = C7_T(res[1].sphere)

\* C7, amended: of several spheres met at the same least distance hit
\* returns the last in iteration order (a later sphere replaces the closest
\* so far unless its t is strictly larger); with no sphere met it returns
\* the null sphere; otherwise the t returned is the least distance.
C7_LastClosestWins ==
  res # <<>> =>
    IF C7_Met = {} THEN res[1].sphere = 0
    ELSE /\ res[1].sphere \in C7_Closest
         /\ \A k \in C7_Closest : res[1].sphere >= k
         /\ res[1].t = C7_T(res[1].sphere)
         /\ \A k \in C7_Met : res[1].t <= C7_T(k)

\* Two different spheres met at the same least distance, a farther one after
\* them: the second of the two is returned.
C7_Witness ==
  /\ res # <<>> /\ Len(spheres) = 3
  /\ spheres[1] # spheres[2]
  /\ C7_Closest = {1, 2} /\ C7_Met = {1, 2, 3}
  /\ res[1].sphere = 2

-----------------------------------------------------------------------------
(* Ray::scatter on its own: one call, arg = <<ray, p, n, mat, r>>, r being  *)
(* what randomUnitVec3OnSphere returns if scatter calls it.                *)

ScatterMaterials == {Diffuse(Grey), Metal(White)}

\* The sphere hit is the unit sphere around the origin, so that the point hit
\* is the normal; the ray comes from (0, 0, 3).
InitScatter ==
  /\ arg \in { <<Ray(<<0, 0, 3000>>, VSub(n, <<0, 0, 3000>>)), n, n, m, r>> :
                 n \in SamplerReturns, m \in ScatterMaterials, r \in SamplerReturns }
  /\ res = <<>>
  /\ spheres = EmptyScene
  /\ MainIdle /\ ColorIdle /\ SamplerIdle

Scatter ==
  /\ res = <<>>
  /\ res' = <<scatter(arg[1], arg[2], arg[3], arg[4], arg[5])>>
  /\ UNCHANGED <<arg, spheres, mainVars, colorVars, samplerVars>>

NextScatter == Scatter

SpecScatter == InitScatter /\ [][NextScatter]_vars

\* Every component of n + r is within epsilon of zero.
C8_Degenerate ==
  \A j \in 1..3 : Abs(arg[3][j] + arg[5][j]) < Epsilon

\* C8: for a non-metallic material scatter returns a ray from p in the
\* direction n + r, except when every component of n + r is within epsilon of
\* zero: then the direction is exactly the normal n, not 2n.
C8_DegenerateDirectionIsNormal ==
  (res # <<>> /\ arg[4].metallic = 0) =>
    /\ res[1].origin = arg[2]
    /\ res[1].direction = (IF C8_Degenerate THEN arg[3] ELSE VAdd(arg[3], arg[5]))

\* C8, amended: for a non-metallic material scatter returns a ray from p in
\* the direction n + r, except when every component of n + r is within
\* epsilon of zero: then r is replaced by n and the direction is n + n = 2n.
C8_DegenerateDirectionIsTwiceNormal ==
  (res # <<>> /\ arg[4].metallic = 0) =>
    /\ res[1].origin = arg[2]
    /\ res[1].direction =
         (IF C8_Degenerate THEN VAdd(arg[3], arg[3]) ELSE VAdd(arg[3], arg[5]))

\* A diffuse scatter whose random vector is the opposite of the normal.
C8_Witness ==
  /\ res # <<>> /\ arg[4].metallic = 0
  /\ C8_Degenerate /\ arg[3] # <<0, 0, 0>>
  /\ res[1].direction = <<2 * arg[3][1], 2 * arg[3][2], 2 * arg[3][3]>>

-----------------------------------------------------------------------------
(* randomUnitVec3OnSphere on its own: the loop of lines 306-312.  dir is    *)
(* the candidate of the iteration under way, filled one randomFloat at a    *)
(* time by randomVec3, l its squared length, res the value returned.        *)

SamplerDraw ==
  /\ spc = "loop"
  /\ \E u \in RandomFloats : dir' = Append(dir, randomFloat(-Scale, Scale, u))
  /\ IF Len(dir) = 2
     THEN l' = dot(dir', dir') /\ spc' = "test"
     ELSE UNCHANGED <<l, spc>>
  /\ UNCHANGED <<res, arg, spheres, mainVars, colorVars>>

\* The components drawn so far can be completed to a candidate that the test
\* of line 309 takes.
Promising(prefix) ==
  \E c \in Candidates :
    /\ \A j \in 1..Len(prefix) : c[j] = prefix[j]
    /\ accepted(dot(c, c))

\* The draw of the k-th component that leaves the candidate promising.
SamplerDrawPromising(k) == SamplerDraw /\ Len(dir') = k /\ Promising(dir')

SamplerReturn ==
  /\ spc = "test" /\ accepted(l)
  /\ res' = <<VDivS(dir, FSqrt(l))>>
  /\ spc' = "done"
  /\ UNCHANGED <<dir, l, arg, spheres, mainVars, colorVars>>

SamplerReject ==
  /\ spc = "test" /\ ~accepted(l)
  /\ spc' = "loop"
  /\ dir' = <<>> /\ l' = 0
  /\ UNCHANGED <<res, arg, spheres, mainVars, colorVars>>

InitSampler ==
  /\ dir = <<>> /\ l = 0 /\ spc = "loop"
  /\ UnitIdle
  /\ spheres = EmptyScene
  /\ MainIdle /\ ColorIdle

NextSampler == SamplerDraw \/ SamplerReturn \/ SamplerReject

SpecSampler == InitSampler /\ [][NextSampler]_vars

\* The call runs on while it can, and the random source yields, sooner or
\* later, each component of a candidate that is taken.
SpecSamplerFair ==
  /\ SpecSampler
  /\ WF_vars(NextSampler)
  /\ SF_vars(SamplerDrawPromising(1))
  /\ SF_vars(SamplerDrawPromising(2))
  /\ SF_vars(SamplerDrawPromising(3))

\* C6: the sampler draws candidates from the cube [-1, 1]^3; it returns only
\* on a candidate whose squared length l is above the threshold and at most
\* 1, and returns it divided by sqrt(l); it never returns on the zero vector;
\* a rejected candidate is followed by another draw; and, the random source
\* yielding an acceptable candidate sooner or later, the call returns.
C6_RejectionLoopReturnsUnitVector ==
  /\ [](spc = "test" =>
          /\ Len(dir) = 3
          /\ \A j \in 1..3 : -Scale <= dir[j] /\ dir[j] <= Scale
          /\ l = dot(dir, dir))
  /\ [][spc' = "done" =>
          /\ spc = "test"
          /\ 0 < l /\ l <= Scale
          /\ dir # <<0, 0, 0>> /\ FSqrt(l) # 0
          /\ res' = <<VDivS(dir, FSqrt(l))>>]_vars
  /\ [][(spc = "test" /\ ~(0 < l /\ l <= Scale)) =>
          (spc' = "loop" /\ dir' = <<>>)]_vars
  /\ [][spc = "loop" =>
          /\ Len(dir') = Len(dir) + 1
          /\ SubSeq(dir', 1, Len(dir)) = dir
          /\ spc' = (IF Len(dir') = 3 THEN "test" ELSE "loop")]_vars
  /\ <>(spc = "done")

\* A candidate strictly inside the unit ball has been returned, scaled up
\* to the unit sphere.
C6_Witness ==
  /\ spc = "done" /\ 0 < l /\ l < Scale
  /\ res = <<VDivS(dir, FSqrt(l))>> /\ res[1] # dir

-----------------------------------------------------------------------------
(* main: the render pass (lines 216-240), the upload of the buffer to the  *)
(* texture (lines 242-246) and the display loop (lines 248-264).           *)

\* tan(radians(60 / 2)).
fov == 577
sampleCount == 150

\* The largest image, in pixels each way.
MaxW == 2
MaxH == 2

\* The first two spheres of the program's world, behind the camera instead
\* of in front of it: no primary ray meets them.
BehindScene ==
  << Sphere(<<0, 0, 1000>>, 200, Diffuse(Grey)),
     Sphere(<<450, 0, 1000>>, 200, Metal(White)) >>

RenderScenes == {EmptyScene, BehindScene}

\* pixelToWorld(x, y), x and y in pixels as fixed-point numbers.
pixelToWorld(px, py) ==
  << FMul(FMul(2 * FDiv(px + Scale \div 2, w * Scale) - Scale, aspectRatio), fov),
     FMul(Scale - 2 * FDiv(py + Scale \div 2, h * Scale), fov) >>

\* randomVec2(-0.5f, 0.5f), u and v being what randomFloat() returns.
randomVec2(min, max, u, v) == <<randomFloat(min, max, u), randomFloat(min, max, v)>>

\* Lines 227-230: the primary ray of a sample of pixel (x, y).
primaryRay(offset) ==
  LET pos == pixelToWorld(x * Scale + offset[1], y * Scale + offset[2])
      origin == <<0, 0, 0>>
  IN  Ray(origin, normalize(VSub(<<pos[1], pos[2], -Scale>>, origin)))

\* glm::clamp(v, 0.0f, 1.0f) of a radiance channel.
clamp(v) == IF v < 0 THEN 0 ELSE IF v > CScale THEN CScale ELSE v

\* Line 234: the average of the samples, its square root, clamped.
tone(sum) ==
  [j \in 1..3 |-> clamp(CSqrt(RDiv(sum[j], sampleCount)))]

\* A channel as a byte, rounded to the nearest where the cast truncates.
toByteRounded(v) == RDiv(v * 255, CScale)

\* static_cast<uint32_t>(v * 255).
toByte(v) == (v * 255) \div CScale

\* y * w + x, with the row and the column exchanged.
pixelIndexByColumn(px, py) == px * h + py

\* Line 221.
pixelIndex(px, py) == py * w + px

\* Lines 236-238: the packed pixel, as its four bytes from the high one down.
pack(c) == <<toByte(c[1]), toByte(c[2]), toByte(c[3]), 255>>

Init ==
  /\ spheres \in RenderScenes
  /\ w \in 1..MaxW /\ h \in 1..MaxH
  /\ aspectRatio = FDiv(w * Scale, h * Scale)
  /\ pixels = [k \in 1..(w * h) |-> <<0, 0, 0, 0>>]
  /\ x = 0 /\ y = 0 /\ i = 0
  /\ pixelColor = Black
  /\ texturePixels = "none"
  /\ isRunning = TRUE
  /\ pc = "render"
  /\ writes = <<>>
  /\ ColorIdle /\ SamplerIdle /\ UnitIdle

\* Lines 226-232: one sample of the pixel under way.
Sample ==
  /\ pc = "render" /\ y < h /\ x < w /\ i < sampleCount
  /\ \E u \in RandomFloats, v \in RandomFloats :
       \E c \in color(primaryRay(randomVec2(-(Scale \div 2), Scale \div 2, u, v)),
                      rayDepth) :
         pixelColor' = VAdd(pixelColor, c)
  /\ i' = i + 1
  /\ UNCHANGED <<w, h, aspectRatio, x, y, pixels, texturePixels, isRunning, pc,
                 writes, spheres, colorVars, samplerVars, unitVars>>

\* Lines 234-238, and the start of the next pixel: the pixel is written.
WritePixel ==
  /\ pc = "render" /\ y < h /\ x < w /\ ~(i < sampleCount)
  /\ pixels' = [pixels EXCEPT ![pixelIndex(x, y) + 1] = pack(tone(pixelColor))]
  /\ writes' = Append(writes, pixelIndex(x, y))
  /\ x' = x + 1
  /\ i' = 0
  /\ pixelColor' = Black
  /\ UNCHANGED <<w, h, aspectRatio, y, texturePixels, isRunning, pc,
                 spheres, colorVars, samplerVars, unitVars>>

\* Lines 218-219: the row is finished.
NextRow ==
  /\ pc = "render" /\ y < h /\ ~(x < w)
  /\ y' = y + 1
  /\ x' = 0
  /\ UNCHANGED <<w, h, aspectRatio, i, pixelColor, pixels, texturePixels,
                 isRunning, pc, writes, spheres, colorVars, samplerVars, unitVars>>

\* Lines 242-246: the render pass is over, the buffer is copied to the texture.
Upload ==
  /\ pc = "render" /\ ~(y < h)
  /\ texturePixels' = pixels
  /\ pc' = "display"
  /\ UNCHANGED <<w, h, aspectRatio, x, y, i, pixelColor, pixels, isRunning,
                 writes, spheres, colorVars, samplerVars, unitVars>>

\* Lines 248-264: one turn of the display loop; the events polled may ask
\* to quit.
Frame ==
  /\ pc = "display" /\ isRunning
  /\ \E quit \in BOOLEAN : isRunning' = ~quit
  /\ UNCHANGED <<w, h, aspectRatio, x, y, i, pixelColor, pixels, texturePixels,
                 pc, writes, spheres, colorVars, samplerVars, unitVars>>

\* Lines 266-272.
Exit ==
  /\ pc = "display" /\ ~isRunning
  /\ pc' = "exit"
  /\ UNCHANGED <<w, h, aspectRatio, x, y, i, pixelColor, pixels, texturePixels,
                 isRunning, writes, spheres, colorVars, samplerVars, unitVars>>

Next == Sample \/ WritePixel \/ NextRow \/ Upload \/ Frame \/ Exit

Spec == Init /\ [][Next]_vars

\* C1: the buffer has exactly w * h entries; the entry y * w + x is written
\* exactly once and in row-major order, so that the indices written are 0, 1,
\* 2, ... and all of them once the render pass is over; every value written
\* has the alpha byte 255; and once the render pass is over and the buffer
\* handed to the texture, no entry is written again.
C1_BufferWrittenOnceInRowMajorOrder ==
  /\ [](Len(pixels) = w * h)
  /\ [](/\ Len(writes) <= w * h
        /\ \A k \in 1..Len(writes) : writes[k] = k - 1 /\ pixels[k][4] = 255
        /\ pc = "render" /\ y < h => Len(writes) = y * w + x
        /\ pc # "render" => Len(writes) = w * h)
  /\ [][pixels' # pixels =>
          /\ pc = "render"
          /\ writes' = Append(writes, y * w + x)
          /\ \A k \in 1..(w * h) : k # y * w + x + 1 => pixels'[k] = pixels[k]]_vars
  /\ [][pc # "render" => pixels' = pixels]_vars
  /\ [](pc # "render" => texturePixels = pixels)

\* A 2 x 2 image has been rendered, handed over and displayed.
C1_Witness ==
  /\ pc = "exit" /\ w = 2 /\ h = 2
  /\ writes = <<0, 1, 2, 3>>
  /\ texturePixels = pixels
  /\ \A k \in 1..4 : pixels[k][4] = 255

\* C2, as stated: with no sphere in the scene every pixel written is red 180,
\* green 228, blue 242, alpha 255.
C2_EmptySceneIsSky242 ==
  spheres = <<>> =>
    \A k \in 1..Len(writes) : pixels[writes[k] + 1] = <<180, 228, 242, 255>>

\* C2, amended: with no sphere in the scene every pixel written is red 180,
\* green 228, blue 241, alpha 255: the square root of 0.9 times 255 is 241.9
\* and the cast to an integer truncates.
C2_EmptySceneIsSky241 ==
  spheres = <<>> =>
    \A k \in 1..Len(writes) : pixels[writes[k] + 1] = <<180, 228, 241, 255>>

\* An image of more than one pixel of the empty scene is on display.
C2_Witness ==
  /\ spheres = <<>> /\ pc = "display" /\ w * h > 1
  /\ Len(writes) = w * h
  /\ \A k \in 1..(w * h) : texturePixels[k] = <<180, 228, 241, 255>>

=============================================================================
